---- MODULE Spec2Model ----
(***************************************************************************)
(* The Slack assistant's turn pipeline: the listeners of                   *)
(* listeners/assistant/message.py, listeners/events/app_mentioned.py and   *)
(* listeners/assistant/assistant.py, and the async generator call_llm of   *)
(* ai/llm_caller.py that they drive.  A turn is one run of a listener in   *)
(* one of Bolt's listener threads; the ADK runner, its session store and   *)
(* the Slack client are the environment.                                   *)
(***************************************************************************)
EXTENDS Naturals, Sequences, FiniteSets, TLC

(***************************************************************************)
(* Bounds.                                                                 *)
(***************************************************************************)
\* raw events the engine delivers in the one turn of SpecTranslate
MaxEvents == 2
\* listener runs (turns) of Spec, each in its own listener thread
MaxTurns == 2
\* raw events the engine delivers in a turn of Spec
MaxTurnEvents == 1
\* raw events the engine delivers in the one turn of SpecTurn
MaxFailEvents == 2

Turns == 1..MaxTurns

(***************************************************************************)
(* Python values.  None is Python's None; a str is a TLA+ string.          *)
(***************************************************************************)
None == "<None>"

\* bool(s) of an optional str
Truthy(s) == s # None /\ s # ""

(***************************************************************************)
(* str.replace("_", " ").title() of llm_caller.py:120, on a tool name      *)
(* given as its sequence of characters.                                    *)
(***************************************************************************)
LowerChars ==
    <<"a","b","c","d","e","f","g","h","i","j","k","l","m",
      "n","o","p","q","r","s","t","u","v","w","x","y","z">>
UpperChars ==
    <<"A","B","C","D","E","F","G","H","I","J","K","L","M",
      "N","O","P","Q","R","S","T","U","V","W","X","Y","Z">>

IsLower(c) == \E i \in 1..Len(LowerChars) : LowerChars[i] = c
IsUpper(c) == \E i \in 1..Len(UpperChars) : UpperChars[i] = c
IsCased(c) == IsLower(c) \/ IsUpper(c)
Upper(c) ==
    IF IsLower(c)
    THEN UpperChars[CHOOSE i \in 1..Len(LowerChars) : LowerChars[i] = c]
    ELSE c
Lower(c) ==
    IF IsUpper(c)
    THEN LowerChars[CHOOSE i \in 1..Len(UpperChars) : UpperChars[i] = c]
    ELSE c

\* a tool name whose underscores are kept
KeepUnderscore(cs) == cs

\* str.replace("_", " ")
ReplaceUnderscore(cs) ==
    [i \in 1..Len(cs) |-> IF cs[i] = "_" THEN " " ELSE cs[i]]

\* str.title(): a cased character is upper-cased after an uncased one (or at
\* the start) and lower-cased after a cased one
Title(cs) ==
    [i \in 1..Len(cs) |->
        IF i = 1 \/ ~IsCased(cs[i - 1]) THEN Upper(cs[i]) ELSE Lower(cs[i])]

RECURSIVE Join(_)
\* "".join(cs)
Join(cs) == IF cs = <<>> THEN "" ELSE Head(cs) \o Join(Tail(cs))

\* llm_caller.py:120
ReadableName(tool_name) == Join(Title(ReplaceUnderscore(tool_name)))

(***************************************************************************)
(* Raw execution events of runner.run_async, as call_llm reads them:       *)
(* event.author, event.get_function_calls(), event.actions and             *)
(* event.content.parts.                                                    *)
(***************************************************************************)
USER == "user"
Agents == {"MathAgent", "TextAgent"}

\* the tools of ai/tools.py the bounded feeds call
calculate == <<"c","a","l","c","u","l","a","t","e">>
get_help_info == <<"g","e","t","_","h","e","l","p","_","i","n","f","o">>

FunctionCall(name) == [name |-> name]
\* event.actions: an EventActions object, or None
NoActions == [present |-> FALSE, transfer_to_agent |-> None]
Actions(target) == [present |-> TRUE, transfer_to_agent |-> target]
\* event.content: a Content with parts, or None
NoContent == [present |-> FALSE, parts |-> <<>>]
Content(texts) ==
    [present |-> TRUE, parts |-> [i \in 1..Len(texts) |-> [text |-> texts[i]]]]

\* absent: the attributes the event object does not have at all
RawEvent(author, calls, actions, content) ==
    [author |-> author, function_calls |-> calls,
     actions |-> actions, content |-> content, absent |-> {}]

Attributes == {"author", "get_function_calls", "actions", "content"}
\* the event object e without the attributes attrs
Without(e, attrs) ==
    [author |-> IF "author" \in attrs THEN None ELSE e.author,
     function_calls |-> IF "get_function_calls" \in attrs THEN <<>> ELSE e.function_calls,
     actions |-> IF "actions" \in attrs THEN NoActions ELSE e.actions,
     content |-> IF "content" \in attrs THEN NoContent ELSE e.content,
     absent |-> attrs]
\* hasattr(event, attr)
HasAttr(e, attr) == attr \notin e.absent

\* the events the engine may deliver in SpecTranslate
RawEvents ==
    { RawEvent(a, c, x, p) :
        a \in {None, USER} \cup Agents,
        c \in { <<>>, <<FunctionCall(calculate)>>,
                <<FunctionCall(get_help_info), FunctionCall(calculate)>> },
        x \in { NoActions, Actions(None), Actions("TextAgent") },
        p \in { NoContent, Content(<<"">>), Content(<<"partial">>),
                Content(<<"Result: 4", None, " more">>) } }

\* events of unexpected shape: one that would match every rule, without
\* some of its attributes
ShapelessEvents ==
    { Without(RawEvent("MathAgent", <<FunctionCall(calculate)>>,
                       Actions("TextAgent"), Content(<<"partial">>)), attrs) :
        attrs \in { {"author"}, {"content"}, {"get_function_calls"}, {"actions"},
                    {"get_function_calls", "actions"}, Attributes } }

\* the events the engine may deliver in a turn of Spec
TurnEvents ==
    { RawEvent("MathAgent", <<FunctionCall(calculate)>>, NoActions, NoContent),
      RawEvent("MathAgent", <<>>, NoActions, Content(<<"Result: 4">>)),
      RawEvent("TextAgent", <<>>, Actions("TextAgent"), Content(<<"partial", " more">>)) }

(***************************************************************************)
(* The events call_llm yields (LLMEvent, llm_caller.py:20-24).             *)
(***************************************************************************)
Status(text) == [type |-> "status", text |-> text]
ContentEvent(text) == [type |-> "content", text |-> text]


(***************************************************************************)
(* State.                                                                  *)
(*   handler[t]  the locals of listener run t and what it did to Slack     *)
(*   gen[t]      the frame of the call_llm generator that run t created    *)
(*   _runner     the module global of llm_caller.py:28 (0 is None)         *)
(*   runners     the InMemoryRunner instances constructed so far           *)
(*   sessions    the sessions held by each runner's session service        *)
(***************************************************************************)
VARIABLES handler, gen, _runner, runners, sessions

vars == <<handler, gen, _runner, runners, sessions>>
env == <<_runner, runners, sessions>>

Users == {"U1", "U2"}
\* message timestamps: a thread is named by the ts of its root message
RootTs == {"T1", "T2"}
ReplyTs == {"T9"}

Kinds == {"message", "app_mention", "assistant"}

\* the frame of a call_llm generator that has not been created
NoGen ==
    [pc |-> "unborn", user_id |-> None, session_id |-> None, runner |-> 0,
     messages_in_thread |-> <<>>, created |-> "pending", new_message |-> None,
     current_agent |-> None, has_started_streaming_content |-> FALSE,
     event |-> <<>>, received |-> 0, i |-> 1,
     yielded |-> <<>>, out |-> <<>>, origin |-> <<>>, raised |-> None]

\* a listener thread that has not received its Slack event
Idle ==
    [pc |-> "idle", kind |-> "message", user |-> None,
     payload |-> [ts |-> None, thread_ts |-> None, text |-> None],
     user_id |-> None, thread_ts |-> None, messages |-> <<>>,
     sink |-> <<>>, notices |-> 0, exc |-> None]

SinkOp(op, text) == [op |-> op, text |-> text]

\* the key of a session in a runner's InMemorySessionService (the app name is
\* the constant _app_name of llm_caller.py:29)
SessionKey(user_id, session_id) == <<user_id, session_id>>

(***************************************************************************)
(* call_llm, llm_caller.py:86-143: the translation of one raw event.  The  *)
(* generator runs only while its listener awaits it (the listener is in    *)
(* its async for and has consumed the last yielded event).                 *)
(***************************************************************************)
\* a generator that runs on without waiting for the listener to take what
\* it yielded
RunningAhead(t) == handler[t].pc = "loop"

Running(t) == handler[t].pc = "loop" /\ gen[t].yielded = <<>>

\* a yield: the event is handed to the listener; out is the sequence of all
\* events yielded so far and origin the (raw event number, rule) of each
Yielded(g, ev, rule) ==
    [g EXCEPT !.yielded = <<ev>>,
              !.out = Append(@, ev),
              !.origin = Append(@, <<g.received, rule>>)]

\* a translator that takes the user for an agent
AgentChangedAnyAuthor(author, current_agent) ==
    Truthy(author) /\ author # current_agent

\* llm_caller.py:101
AgentChanged(author, current_agent) ==
    Truthy(author) /\ author # USER /\ author # current_agent

\* a translator that shows the agent status after content has started
AgentStatusShownAlways(started) == TRUE

\* a translator whose has_started_streaming_content is one flag of the
\* module, shared by all turns
AgentStatusShownShared(started) ==
    \A u \in Turns : ~gen[u].has_started_streaming_content

\* llm_caller.py:104
AgentStatusShown(started) == ~started

\* a translator that shows tool statuses after content has started
ToolStatusShownAlways(calls, started) == calls # <<>>

\* llm_caller.py:114
ToolStatusShown(calls, started) == calls # <<>> /\ ~started

\* llm_caller.py:126-131
TransferDeclared(e) ==
    HasAttr(e, "actions") /\ e.actions.present /\ Truthy(e.actions.transfer_to_agent)

\* a translator that puts the hand-off status under the guard of the others
TransferStatusGuarded(e, started) == TransferDeclared(e) /\ ~started

\* llm_caller.py:126-135: the hand-off status does not look at
\* has_started_streaming_content
TransferStatusShown(e, started) == TransferDeclared(e)

\* a translator that streams the content of an event before its hand-off
AfterContentFirst(block) ==
    CASE block = "agent" -> "tools"
      [] block = "tools" -> "content"
      [] block = "content" -> "transfer"
      [] block = "transfer" -> "await"

\* the order of the four blocks of the loop body, llm_caller.py:100-143
After(block) ==
    CASE block = "agent" -> "tools"
      [] block = "tools" -> "transfer"
      [] block = "transfer" -> "content"
      [] block = "content" -> "await"

\* the generator leaves a block: after the last one it is back at the async
\* for of llm_caller.py:91, awaiting the next raw event
Advance(g, block) ==
    IF After(block) = "await"
    THEN [g EXCEPT !.pc = "await", !.event = <<>>, !.i = 1]
    ELSE [g EXCEPT !.pc = After(block), !.i = 1]

\* a translator that streams the content of user-authored events too
HasContentAnyAuthor(e) ==
    e.content.present /\ e.content.parts # <<>>

\* llm_caller.py:138
HasStreamableContent(e) ==
    e.content.present /\ e.content.parts # <<>> /\ e.author # USER

\* a translator that streams every part that has a text attribute, empty or
\* not
PartHasTextAttr(part) == part.text # None

\* llm_caller.py:141
PartHasText(part) == Truthy(part.text)

\* a translator that never notes that content has started
ContentNotMarked(g) == g

\* llm_caller.py:142
ContentStarted(g) == [g EXCEPT !.has_started_streaming_content = TRUE]

\* llm_caller.py:95-97: the log line reads event.author and event.content
Loggable(e) == HasAttr(e, "author") /\ HasAttr(e, "content")

\* llm_caller.py:111
GetFunctionCalls(e) ==
    IF HasAttr(e, "get_function_calls") THEN e.function_calls ELSE <<>>

\* llm_caller.py:94-107
AgentSwitch(t) ==
    LET g == gen[t]
        e == g.event[1]
        g2 == [g EXCEPT !.current_agent = e.author]
        g1 == IF AgentChanged(e.author, g.current_agent)
              THEN IF AgentStatusShown(g2.has_started_streaming_content)
                   THEN Yielded(g2, Status(g2.current_agent \o " is working..."), 1)
                   ELSE g2
              ELSE g
    IN  /\ Running(t)
        /\ g.pc = "agent"
        /\ Loggable(e)
        /\ gen' = [gen EXCEPT ![t] = Advance(g1, "agent")]
        /\ UNCHANGED <<handler, env>>

\* llm_caller.py:109-123, one iteration of the for loop per step
ToolCalls(t) ==
    LET g == gen[t]
        calls == GetFunctionCalls(g.event[1])
    IN  /\ Running(t)
        /\ g.pc = "tools"
        /\ gen' = [gen EXCEPT ![t] =
              IF ToolStatusShown(calls, g.has_started_streaming_content)
                 /\ g.i <= Len(calls)
              THEN [Yielded(g, Status("Using " \o ReadableName(calls[g.i].name) \o "..."), 2)
                        EXCEPT !.i = g.i + 1]
              ELSE Advance(g, "tools")]
        /\ UNCHANGED <<handler, env>>

\* llm_caller.py:125-135
Transfer(t) ==
    LET g == gen[t]
        e == g.event[1]
        g1 == IF TransferStatusShown(e, g.has_started_streaming_content)
              THEN Yielded(g, Status("Consulting " \o e.actions.transfer_to_agent \o "..."), 3)
              ELSE g
    IN  /\ Running(t)
        /\ g.pc = "transfer"
        /\ gen' = [gen EXCEPT ![t] = Advance(g1, "transfer")]
        /\ UNCHANGED <<handler, env>>

\* llm_caller.py:137-143, one iteration of the for loop per step; after the
\* last part the generator awaits the next raw event (line 91)
ContentParts(t) ==
    LET g == gen[t]
        e == g.event[1]
        part == e.content.parts[g.i]
    IN  /\ Running(t)
        /\ g.pc = "content"
        /\ gen' = [gen EXCEPT ![t] =
              IF HasStreamableContent(e) /\ g.i <= Len(e.content.parts)
              THEN IF PartHasText(part)
                   THEN [Yielded(ContentStarted(g), ContentEvent(part.text), 4)
                            EXCEPT !.i = g.i + 1]
                   ELSE [g EXCEPT !.i = g.i + 1]
              ELSE Advance(g, "content")]
        /\ UNCHANGED <<handler, env>>

(***************************************************************************)
(* runner.run_async, llm_caller.py:91-93: the engine delivers the next raw *)
(* event, ends the stream, or fails.  It needs the session to be in the    *)
(* runner's store; without it the first step of the stream raises.         *)
(***************************************************************************)
SessionFound(t) ==
    <<gen[t].runner, SessionKey(gen[t].user_id, gen[t].session_id)>> \in sessions

EngineEvent(t, e, max) ==
    /\ Running(t)
    /\ gen[t].pc = "await"
    /\ SessionFound(t)
    /\ gen[t].received < max
    /\ gen' = [gen EXCEPT ![t].pc = "agent", ![t].event = <<e>>,
                          ![t].received = @ + 1]
    /\ UNCHANGED <<handler, env>>

(***************************************************************************)
(* The listener's side of the stream, message.py:63-91 and                 *)
(* app_mentioned.py:49-78.                                                 *)
(***************************************************************************)
\* a listener whose except clause also stops the stream
CaughtAndStopped(h, e) ==
    [h EXCEPT !.pc = "failed", !.exc = e, !.notices = @ + 1,
              !.sink = Append(@, SinkOp("stop", "feedback"))]

\* the except clause: logger.exception and say(":warning: ...")
Caught(h, e) == [h EXCEPT !.pc = "failed", !.exc = e, !.notices = @ + 1]

\* the Slack call that forwards one yielded event; <<>> when there is none
\* (a content event with empty text, message.py:80)
ForwardOps(ev) ==
    IF ev.type = "status"
    THEN <<SinkOp("set_status", ev.text)>>
    ELSE IF ev.type = "content" /\ ev.text # ""
         THEN <<SinkOp("append", ev.text)>>
         ELSE <<>>

\* message.py:68-81, app_mentioned.py:56-69
Forward(t) ==
    /\ handler[t].pc = "loop"
    /\ gen[t].yielded # <<>>
    /\ handler' = [handler EXCEPT ![t].sink = @ \o ForwardOps(gen[t].yielded[1])]
    /\ gen' = [gen EXCEPT ![t].yielded = <<>>]
    /\ UNCHANGED env

\* the raw event stream is exhausted: call_llm returns, the async for and
\* stream_response end, and the loop is closed (message.py:83-84)
EngineEnd(t) ==
    /\ Running(t)
    /\ gen[t].pc = "await"
    /\ SessionFound(t)
    /\ gen' = [gen EXCEPT ![t].pc = "returned"]
    /\ handler' = [handler EXCEPT ![t].pc = "stop"]
    /\ UNCHANGED env

\* a listener that stops the stream twice
FinalizeTwice(t) ==
    /\ handler[t].pc = "stop"
    /\ handler' = [handler EXCEPT ![t].pc = "done",
                                  ![t].sink = @ \o <<SinkOp("stop", "feedback"),
                                                     SinkOp("stop", "feedback")>>]
    /\ UNCHANGED <<gen, env>>

\* message.py:86-87, app_mentioned.py:74-75
Finalize(t) ==
    /\ handler[t].pc = "stop"
    /\ handler' = [handler EXCEPT ![t].pc = "done",
                                  ![t].sink = Append(@, SinkOp("stop", "feedback"))]
    /\ UNCHANGED <<gen, env>>

\* llm_caller.py:94-97 for an event without author or content: the f-string
\* of the log line raises AttributeError, which leaves call_llm and is
\* caught by the listener (message.py:89-91)
LogEventFails(t) ==
    /\ Running(t)
    /\ gen[t].pc = "agent"
    /\ ~Loggable(gen[t].event[1])
    /\ gen' = [gen EXCEPT ![t].pc = "raised", ![t].raised = "AttributeError"]
    /\ handler' = [handler EXCEPT ![t] = Caught(@, "AttributeError")]
    /\ UNCHANGED env

(***************************************************************************)
(* SpecTranslate: one turn of the message listener, from the point where   *)
(* call_llm awaits the first raw event, with every raw event drawn from    *)
(* RawEvents or ShapelessEvents and no failure of the engine or of Slack.  *)
(***************************************************************************)
InitTranslate ==
    /\ handler = [t \in Turns |->
          IF t = 1
          THEN [Idle EXCEPT !.pc = "loop", !.user = "U1",
                            !.payload = [ts |-> "T9", thread_ts |-> "T1", text |-> "2+2?"],
                            !.user_id = "U1", !.thread_ts = "T1",
                            !.messages = <<[role |-> "user", content |-> "2+2?"]>>,
                            !.sink = <<SinkOp("set_status", "is thinking...")>>]
          ELSE Idle]
    /\ gen = [t \in Turns |->
          IF t = 1
          THEN [NoGen EXCEPT !.pc = "await", !.user_id = "U1", !.session_id = "T1",
                             !.messages_in_thread = <<[role |-> "user", content |-> "2+2?"]>>,
                             !.runner = 1, !.created = "created",
                             !.new_message = "2+2?"]
          ELSE NoGen]
    /\ _runner = 1
    /\ runners = 1
    /\ sessions = {<<1, SessionKey("U1", "T1")>>}

NextTranslate ==
    \/ \E e \in RawEvents \cup ShapelessEvents : EngineEvent(1, e, MaxEvents)
    \/ LogEventFails(1)
    \/ AgentSwitch(1)
    \/ ToolCalls(1)
    \/ Transfer(1)
    \/ ContentParts(1)
    \/ Forward(1)
    \/ EngineEnd(1)
    \/ Finalize(1)

SpecTranslate == InitTranslate /\ [][NextTranslate]_vars


(***************************************************************************)
(* The listeners up to the stream.                                         *)
(***************************************************************************)
\* the Slack events a listener run may receive.  A message in an assistant
\* thread always carries thread_ts; an app mention carries it only when the
\* mention is a reply, and its own ts names the thread otherwise.
Payloads(kind) ==
    LET replies == { [ts |-> r, thread_ts |-> th, text |-> "2+2?"] :
                        r \in ReplyTs, th \in RootTs }
        roots == { [ts |-> th, thread_ts |-> None, text |-> "2+2?"] : th \in RootTs }
    IN  IF kind = "app_mention" THEN replies \cup roots ELSE replies

\* the Slack thread an event belongs to
ThreadOf(payload) ==
    IF payload.thread_ts # None THEN payload.thread_ts ELSE payload.ts

\* an app mention keyed by the ts of the mention itself
ThreadTsOfEvent(kind, payload) ==
    IF kind = "app_mention" THEN payload.ts ELSE payload.thread_ts

\* message.py:35 and assistant.py:77: payload["thread_ts"];
\* app_mentioned.py:26: event.get("thread_ts") or event.get("ts")
ThreadTs(kind, payload) ==
    IF kind = "app_mention"
    THEN IF Truthy(payload.thread_ts) THEN payload.thread_ts ELSE payload.ts
    ELSE payload.thread_ts

\* message.py:32-36, app_mentioned.py:22-27, assistant.py:74-78
StartTurn(t, kind, user, payload) ==
    /\ handler[t].pc = "idle"
    /\ handler' = [handler EXCEPT ![t] =
          [Idle EXCEPT !.pc = "status", !.kind = kind, !.user = user,
                       !.payload = payload, !.user_id = user,
                       !.thread_ts = ThreadTs(kind, payload)]]
    /\ UNCHANGED <<gen, env>>

\* message.py:39, app_mentioned.py:31-36, assistant.py:80-89
InitialStatus(kind) ==
    IF kind = "assistant" THEN "thinking..." ELSE "is thinking..."

\* where a listener goes after its initial status: an app mention fetches no
\* history (app_mentioned.py:52)
AfterStatus(h) ==
    IF h.kind = "app_mention"
    THEN [h EXCEPT !.pc = "stream",
                   !.messages = <<[role |-> "user", content |-> h.payload.text]>>]
    ELSE [h EXCEPT !.pc = "history"]

SetInitialStatus(t) ==
    LET h == handler[t]
    IN  /\ h.pc = "status"
        /\ handler' = [handler EXCEPT ![t] =
              AfterStatus([h EXCEPT !.sink = Append(@, SinkOp("set_status", InitialStatus(h.kind)))])]
        /\ UNCHANGED <<gen, env>>

SetInitialStatusFails(t) ==
    /\ handler[t].pc = "status"
    /\ handler' = [handler EXCEPT ![t] = Caught(@, "SlackApiError")]
    /\ UNCHANGED <<gen, env>>

\* replies["messages"] of conversations_replies
SlackMessage(bot_id, text) == [bot_id |-> bot_id, text |-> text]
Replies(payload) ==
    { <<>>,
      <<SlackMessage(None, payload.text)>>,
      <<SlackMessage(None, "hi"), SlackMessage("B1", "hello")>> }

\* message.py:47-50, assistant.py:97-100
MessagesInThread(replies) ==
    [i \in 1..Len(replies) |->
        [role |-> IF replies[i].bot_id = None THEN "user" ELSE "assistant",
         content |-> replies[i].text]]

\* a call of call_llm creates the generator and binds its arguments; no line
\* of its body runs before the first __anext__ (llm_caller.py:41-45)
CallLlm(messages_in_thread, user_id, session_id) ==
    [NoGen EXCEPT !.pc = "created", !.messages_in_thread = messages_in_thread,
                  !.user_id = user_id, !.session_id = session_id]

\* message.py:41-50; assistant.py:91-102, which also calls call_llm with the
\* history alone
FetchHistory(t, replies) ==
    LET h == handler[t]
    IN  /\ h.pc = "history"
        /\ handler' = [handler EXCEPT ![t] =
              [h EXCEPT !.pc = "stream", !.messages = MessagesInThread(replies)]]
        /\ gen' = [gen EXCEPT ![t] =
              IF h.kind = "assistant"
              THEN CallLlm(MessagesInThread(replies), "default_user", None)
              ELSE @]
        /\ UNCHANGED env

FetchHistoryFails(t) ==
    /\ handler[t].pc = "history"
    /\ handler' = [handler EXCEPT ![t] = Caught(@, "SlackApiError")]
    /\ UNCHANGED <<gen, env>>

\* message.py:53-67, app_mentioned.py:39-55: the stream is opened and
\* stream_response calls call_llm; assistant.py:104-109 opens the stream only
OpenStream(t) ==
    LET h == handler[t]
    IN  /\ h.pc = "stream"
        /\ handler' = [handler EXCEPT ![t].pc =
              IF h.kind = "assistant" THEN "iterate" ELSE "loop"]
        /\ gen' = [gen EXCEPT ![t] =
              IF h.kind = "assistant"
              THEN @
              ELSE CallLlm(h.messages, h.user_id, h.thread_ts)]
        /\ UNCHANGED env

OpenStreamFails(t) ==
    /\ handler[t].pc = "stream"
    /\ handler' = [handler EXCEPT ![t] = Caught(@, "SlackApiError")]
    /\ UNCHANGED <<gen, env>>

\* assistant.py:113: a plain for over the async generator raises TypeError
\* before any line of call_llm runs
IterateSync(t) ==
    /\ handler[t].pc = "iterate"
    /\ handler' = [handler EXCEPT ![t] = Caught(@, "TypeError")]
    /\ UNCHANGED <<gen, env>>

(***************************************************************************)
(* call_llm up to the stream, llm_caller.py:59-88.                         *)
(***************************************************************************)
\* get_adk_runner, llm_caller.py:35: the test of the global
GetRunnerCheck(t) ==
    /\ Running(t)
    /\ gen[t].pc = "created"
    /\ gen' = [gen EXCEPT ![t].pc = IF _runner = 0 THEN "construct" ELSE "return"]
    /\ UNCHANGED <<handler, env>>

\* llm_caller.py:36-37: a new runner, with its own session service, is stored
\* in the global
ConstructRunner(t) ==
    /\ Running(t)
    /\ gen[t].pc = "construct"
    /\ runners' = runners + 1
    /\ _runner' = runners + 1
    /\ gen' = [gen EXCEPT ![t].pc = "return"]
    /\ UNCHANGED <<handler, sessions>>

\* llm_caller.py:38 and 59: the global is read again and returned
ReturnRunner(t) ==
    /\ Running(t)
    /\ gen[t].pc = "return"
    /\ gen' = [gen EXCEPT ![t].pc = "session", ![t].runner = _runner]
    /\ UNCHANGED <<handler, env>>

\* a call_llm that keys every session by the user alone
SessionIdOfUser(user_id, session_id) == "session_" \o user_id

\* llm_caller.py:62-63
SessionId(user_id, session_id) ==
    IF session_id = None THEN "session_" \o user_id ELSE session_id

\* llm_caller.py:75-84: the text of the new message
\* variants of NewMessage: the first message of the history instead of the
\* last, and no default for an empty history
NewMessageFirst(messages_in_thread) ==
    IF messages_in_thread # <<>>
    THEN messages_in_thread[1].content
    ELSE ""

NewMessageNoDefault(messages_in_thread) ==
    IF messages_in_thread # <<>>
    THEN messages_in_thread[Len(messages_in_thread)].content
    ELSE None

NewMessage(messages_in_thread) ==
    IF messages_in_thread # <<>>
    THEN messages_in_thread[Len(messages_in_thread)].content
    ELSE ""

\* llm_caller.py:62-88 after create_session ended with `outcome`: whatever it
\* raised is passed over, and the generator reaches its async for
Ensured(g, outcome) ==
    [g EXCEPT !.pc = "await",
              !.session_id = SessionId(g.user_id, g.session_id),
              !.created = outcome,
              !.new_message = NewMessage(g.messages_in_thread),
              !.current_agent = None,
              !.has_started_streaming_content = FALSE]

CreateKey(t) ==
    <<gen[t].runner,
      SessionKey(gen[t].user_id, SessionId(gen[t].user_id, gen[t].session_id))>>

\* create_session stores a new session
SessionCreated(t) ==
    /\ Running(t)
    /\ gen[t].pc = "session"
    /\ CreateKey(t) \notin sessions
    /\ sessions' = sessions \cup {CreateKey(t)}
    /\ gen' = [gen EXCEPT ![t] = Ensured(@, "created")]
    /\ UNCHANGED <<handler, _runner, runners>>

\* create_session raises because the session is in the store
SessionExists(t) ==
    /\ Running(t)
    /\ gen[t].pc = "session"
    /\ CreateKey(t) \in sessions
    /\ gen' = [gen EXCEPT ![t] = Ensured(@, "exists")]
    /\ UNCHANGED <<handler, env>>

\* create_session raises for any other reason and stores nothing
SessionCreateFails(t) ==
    /\ Running(t)
    /\ gen[t].pc = "session"
    /\ gen' = [gen EXCEPT ![t] = Ensured(@, "error")]
    /\ UNCHANGED <<handler, env>>

(***************************************************************************)
(* Failures in the stream.                                                 *)
(***************************************************************************)
\* run_async raises (always so when the session is not in the store); the
\* exception leaves call_llm, stream_response and run_until_complete and is
\* caught at message.py:89, app_mentioned.py:76
EngineFails(t) ==
    /\ Running(t)
    /\ gen[t].pc = "await"
    /\ gen' = [gen EXCEPT ![t].pc = "raised", ![t].raised = "EngineError"]
    /\ handler' = [handler EXCEPT ![t] = Caught(@, "EngineError")]
    /\ UNCHANGED env

\* the Slack call that forwards a yielded event raises
ForwardFails(t) ==
    /\ handler[t].pc = "loop"
    /\ gen[t].yielded # <<>>
    /\ ForwardOps(gen[t].yielded[1]) # <<>>
    /\ handler' = [handler EXCEPT ![t] = Caught(@, "SlackApiError")]
    /\ UNCHANGED <<gen, env>>

\* streamer.stop raises
FinalizeFails(t) ==
    /\ handler[t].pc = "stop"
    /\ handler' = [handler EXCEPT ![t] = Caught(@, "SlackApiError")]
    /\ UNCHANGED <<gen, env>>

(***************************************************************************)
(* Spec: MaxTurns listener threads, each handling one Slack event, run     *)
(* concurrently against the one module global and the runners' session     *)
(* stores.  Slack's own calls succeed here (SpecTurn fails them).  Turn 1  *)
(* is user U1 in thread T1: the other turns take every user and thread, so *)
(* every pair of equal or different users and threads is covered.          *)
(***************************************************************************)
Init ==
    /\ handler = [t \in Turns |-> Idle]
    /\ gen = [t \in Turns |-> NoGen]
    /\ _runner = 0
    /\ runners = 0
    /\ sessions = {}

Arrivals(t) ==
    { <<kind, user, payload>> \in
          UNION { {kind} \X Users \X Payloads(kind) : kind \in Kinds } :
        t = 1 => user = "U1" /\ ThreadOf(payload) = "T1" }

\* the histories conversations_replies returns in Spec
TurnReplies(payload) ==
    { r \in Replies(payload) : Len(r) = 1 }

Next ==
    \E t \in Turns :
        \/ \E a \in Arrivals(t) : StartTurn(t, a[1], a[2], a[3])
        \/ SetInitialStatus(t)
        \/ \E replies \in TurnReplies(handler[t].payload) : FetchHistory(t, replies)
        \/ OpenStream(t)
        \/ IterateSync(t)
        \/ GetRunnerCheck(t)
        \/ ConstructRunner(t)
        \/ ReturnRunner(t)
        \/ SessionCreated(t)
        \/ SessionExists(t)
        \/ SessionCreateFails(t)
        \/ \E e \in TurnEvents : EngineEvent(t, e, MaxTurnEvents)
        \/ EngineEnd(t)
        \/ EngineFails(t)
        \/ AgentSwitch(t)
        \/ ToolCalls(t)
        \/ Transfer(t)
        \/ ContentParts(t)
        \/ Forward(t)
        \/ Finalize(t)

Spec == Init /\ [][Next]_vars

(***************************************************************************)
(* SpecTurn: one listener run of any kind, in which the engine and every   *)
(* Slack call may fail.                                                    *)
(***************************************************************************)
NextTurn ==
    \/ \E kind \in Kinds, user \in Users :
          \E payload \in Payloads(kind) : StartTurn(1, kind, user, payload)
    \/ SetInitialStatus(1)
    \/ SetInitialStatusFails(1)
    \/ \E replies \in Replies(handler[1].payload) : FetchHistory(1, replies)
    \/ FetchHistoryFails(1)
    \/ OpenStream(1)
    \/ OpenStreamFails(1)
    \/ IterateSync(1)
    \/ GetRunnerCheck(1)
    \/ ConstructRunner(1)
    \/ ReturnRunner(1)
    \/ SessionCreated(1)
    \/ SessionCreateFails(1)
    \/ \E e \in TurnEvents : EngineEvent(1, e, MaxFailEvents)
    \/ EngineEnd(1)
    \/ EngineFails(1)
    \/ AgentSwitch(1)
    \/ ToolCalls(1)
    \/ Transfer(1)
    \/ ContentParts(1)
    \/ Forward(1)
    \/ ForwardFails(1)
    \/ Finalize(1)
    \/ FinalizeFails(1)

SpecTurn == Init /\ [][NextTurn]_vars


(***************************************************************************)
(* Claims about the translation of the raw event stream (SpecTranslate).   *)
(***************************************************************************)
\* the positions of out[t] that raw event n produced in block `rule`
\* (1 agent switch, 2 tool call, 3 hand-off, 4 content)
Produced(g, n, rule) == { i \in DOMAIN g.out : g.origin[i] = <<n, rule>> }

ContentYielded(g) == \E i \in DOMAIN g.out : g.out[i].type = "content"

\* C1: in every turn, once a content event has been yielded, no later yielded
\* event is an agent-switch status ("<agent> is working...") or a tool-call
\* status ("Using <Tool>...").
C1_NoAgentOrToolStatusAfterContent ==
    \A t \in Turns :
        LET g == gen[t]
        IN  \A i, j \in DOMAIN g.out :
                i < j /\ g.out[i].type = "content" =>
                    g.origin[j][2] \notin {1, 2}

\* C1 witness: after content was yielded by the first raw event, a second raw
\* event with a new agent as author and with function calls has passed the
\* agent-switch and tool-call blocks.
C1_Witness ==
    LET g == gen[1]
    IN  /\ g.received = 2
        /\ g.pc = "transfer"
        /\ \E i \in DOMAIN g.out : g.out[i].type = "content" /\ g.origin[i][1] = 1
        /\ g.event[1].function_calls # <<>>
        /\ g.event[1].author \in Agents
        /\ g.current_agent = g.event[1].author
        /\ \A i \in DOMAIN g.out : g.origin[i][1] = 1
        /\ Produced(g, 1, 1) # {}

\* the hand-off part of C2: every raw event that declares a transfer target
\* yields exactly one "Consulting <target>..." status, and no raw event yields
\* more than one hand-off status
HandOffShownOnce ==
    \A t \in Turns :
        LET g == gen[t]
        IN  /\ \A n \in 1..g.received : Cardinality(Produced(g, n, 3)) <= 1
            /\ g.pc = After("transfer") /\ g.event # <<>>
                   /\ TransferDeclared(g.event[1]) =>
                  \E i \in DOMAIN g.out :
                      /\ Produced(g, g.received, 3) = {i}
                      /\ g.out[i] = Status("Consulting "
                                       \o g.event[1].actions.transfer_to_agent \o "...")

\* the first raw event of the example of C2, [author=A, content='partial'],
\* has been translated
ExampleFirstEventDone(g) ==
    /\ g.received = 1
    /\ g.pc = "content"
    /\ g.event[1].author = "MathAgent"
    /\ g.event[1].function_calls = <<>>
    /\ ~TransferDeclared(g.event[1])
    /\ g.event[1].content = Content(<<"partial">>)
    /\ g.i > 1
    /\ g.yielded = <<>>

\* C2 as claimed: every raw event that declares a transfer target yields
\* exactly one "Consulting <target>..." status, and the example stream
\* [author=A, content='partial'], ... starts its output with Content('partial').
C2_AsClaimed ==
    /\ HandOffShownOnce
    /\ \A t \in Turns :
          ExampleFirstEventDone(gen[t]) => gen[t].out = <<ContentEvent("partial")>>

\* C2 as amended: every raw event that declares a transfer target yields
\* exactly one "Consulting <target>..." status, whether or not content has
\* started; the example stream yields Status('A is working...') before
\* Content('partial').
C2_HandOffAlwaysShown ==
    /\ HandOffShownOnce
    /\ \A t \in Turns :
          ExampleFirstEventDone(gen[t]) =>
              gen[t].out = <<Status("MathAgent is working..."), ContentEvent("partial")>>

\* C2 witness: content was yielded by the first raw event, and the second raw
\* event, which declares a transfer to TextAgent and carries content, has
\* yielded its hand-off status and then its content.
C2_Witness ==
    LET g == gen[1]
    IN  /\ g.received = 2
        /\ g.out = <<Status("MathAgent is working..."), ContentEvent("partial"),
                     Status("Consulting TextAgent..."), ContentEvent("partial")>>
        /\ g.origin[3] = <<2, 3>>

\* C3 as claimed: within one turn no status event of any kind is yielded
\* after the first content event.
C3_NoStatusAfterContent ==
    \A t \in Turns :
        LET g == gen[t]
        IN  \A i, j \in DOMAIN g.out :
                i < j /\ g.out[i].type = "content" => g.out[j].type # "status"

\* C3 as amended: within one turn, a status event yielded after the first
\* content event is the hand-off status "Consulting <target>..." of the raw
\* event being translated, which declares that transfer target.
C3_StatusAfterContentIsHandOff ==
    [][ \A t \in Turns :
          LET g == gen[t]
              h == gen'[t]
              n == Len(h.out)
          IN  ContentYielded(g) /\ n = Len(g.out) + 1 /\ h.out[n].type = "status" =>
                  /\ g.event # <<>>
                  /\ TransferDeclared(g.event[1])
                  /\ h.out[n] = Status("Consulting "
                                   \o g.event[1].actions.transfer_to_agent \o "...") ]_vars

\* C3 witness: a hand-off status was yielded after a content event.
C3_Witness ==
    \E i, j \in DOMAIN gen[1].out :
        /\ i < j
        /\ gen[1].out[i].type = "content"
        /\ gen[1].out[j] = Status("Consulting TextAgent...")
        /\ gen[1].current_agent = "TextAgent"

\* C4: the yielded events keep the order of the raw events that produced
\* them, and within one raw event the order of the blocks: agent-switch
\* status, tool-call statuses, hand-off status, content chunks.
C4_OutputOrderIsRawOrder ==
    \A t \in Turns :
        LET g == gen[t]
        IN  /\ Len(g.origin) = Len(g.out)
            /\ \A i, j \in DOMAIN g.out :
                  i < j =>
                      \/ g.origin[i][1] < g.origin[j][1]
                      \/ /\ g.origin[i][1] = g.origin[j][1]
                         /\ g.origin[i][2] <= g.origin[j][2]
            /\ \A i \in DOMAIN g.out :
                  /\ g.origin[i][1] \in 1..g.received
                  /\ g.out[i].type = "content" <=> g.origin[i][2] = 4

\* C4 witness: the first raw event yielded from all four blocks, and the
\* second raw event has yielded too.
C4_Witness ==
    LET g == gen[1]
    IN  /\ \A rule \in 1..4 : Produced(g, 1, rule) # {}
        /\ Cardinality(Produced(g, 1, 2)) = 2
        /\ \E rule \in 1..4 : Produced(g, 2, rule) # {}


(***************************************************************************)
(* Claims about sessions (Spec).                                           *)
(***************************************************************************)
\* turn t has called create_session (llm_caller.py:67)
Ensuring(t) == gen[t].created # "pending"

\* the session key turn t passed to the engine
EngineKey(t) == SessionKey(gen[t].user_id, gen[t].session_id)

\* the runners whose session store holds a session with this key
Holders(key) == { r \in 1..runners : <<r, key>> \in sessions }

\* what the caller of call_llm can see of a failed session creation: an
\* exception out of the generator, or a yielded event that is neither status
\* nor content
CreationFailureSurfaced(g) ==
    \/ g.raised # None
    \/ \E i \in DOMAIN g.out : g.out[i].type \notin {"status", "content"}

\* C5: two turns that ensure a session with the same (app, user, session id)
\* both go on to the engine's stream with no error handed to the caller, and
\* the second attempt leaves no second session for that key.
C5_SessionCreationIdempotent ==
    \A t1, t2 \in Turns :
        t1 # t2 /\ Ensuring(t1) /\ Ensuring(t2) /\ EngineKey(t1) = EngineKey(t2) =>
            /\ gen[t1].created # "error" /\ gen[t2].created # "error" =>
                  /\ SessionFound(t1) /\ SessionFound(t2)
                  /\ gen[t1].pc = "await" => gen[t1].raised = None
                  /\ gen[t2].pc = "await" => gen[t2].raised = None
            /\ Cardinality(Holders(EngineKey(t1))) <= 1

\* C6: a session creation that fails for another reason than "already
\* exists" is visible to the caller of call_llm by the end of the stream,
\* and an "already exists" failure never is.
C6_OtherCreationFailureSurfaced ==
    \A t \in Turns :
        LET g == gen[t]
        IN  /\ g.created = "error" /\ g.pc \in {"returned", "raised"} =>
                  CreationFailureSurfaced(g)
            /\ g.created = "exists" /\ g.pc = "returned" =>
                  ~CreationFailureSurfaced(g)

\* C9: two turns of different (user, thread) pairs never pass the same
\* session key to the engine: the key a turn passes is made of the user and
\* the thread of its own Slack event.  (The listener of assistant.py calls
\* call_llm without them, and never gets as far as the engine.)
C9_DifferentPairsDifferentSessions ==
    /\ \A t \in Turns :
          Ensuring(t) =>
              /\ handler[t].kind # "assistant"
              /\ EngineKey(t) = SessionKey(handler[t].user, ThreadOf(handler[t].payload))
    /\ \A t1, t2 \in Turns :
          /\ t1 # t2 /\ Ensuring(t1) /\ Ensuring(t2)
          /\ <<handler[t1].user, ThreadOf(handler[t1].payload)>>
                # <<handler[t2].user, ThreadOf(handler[t2].payload)>>
          => EngineKey(t1) # EngineKey(t2)

\* C9 witness: the same user's turns in two threads, one started by a
\* message and one by an app mention, each hold their own session in the
\* same runner.
C9_Witness ==
    /\ handler[1].kind = "message" /\ handler[2].kind = "app_mention"
    /\ handler[1].user = handler[2].user
    /\ ThreadOf(handler[1].payload) # ThreadOf(handler[2].payload)
    /\ gen[1].created = "created" /\ gen[2].created = "created"
    /\ gen[1].runner = gen[2].runner
    /\ SessionFound(1) /\ SessionFound(2)
    /\ Cardinality(sessions) = 2

C7_EngineFailureOneNoticeNoMoreOutput ==
    [][ \A t \in Turns :
          LET h == handler[t]
              k == handler'[t]
          IN  /\ k.exc = "EngineError" => k.pc = "failed" /\ k.notices = 1
              /\ h.exc # "EngineError" /\ k.exc = "EngineError" => k.sink = h.sink
              /\ h.exc = "EngineError" => k = h /\ gen'[t].out = gen[t].out ]_vars

\* C7 witness: the stream failed after content had been appended.
C7_Witness ==
    /\ handler[1].exc = "EngineError"
    /\ gen[1].received = 1
    /\ \E i \in DOMAIN handler[1].sink : handler[1].sink[i].op = "append"
    /\ handler[1].notices = 1

\* the sink still shows a status: one was set and no stop came after it
StatusUnresolved(sink) ==
    \E i \in DOMAIN sink :
        /\ sink[i].op = "set_status" /\ sink[i].text # ""
        /\ \A j \in DOMAIN sink : j > i => sink[j].op # "stop"

\* C8: a listener that failed after it had set a status has cleared the
\* status or stopped the stream.
C8_NoUnresolvedStatusAfterFailure ==
    \A t \in Turns :
        handler[t].pc = "failed" => ~StatusUnresolved(handler[t].sink)

C12_EmptyHistoryIsEmptyUserTurn ==
    \A t \in Turns :
        gen[t].messages_in_thread = <<>> /\ gen[t].created # "pending"
            => /\ gen[t].new_message = ""
               /\ gen[t].raised \in {None, "EngineError"}
               /\ handler[t].exc \in {None, "EngineError", "SlackApiError"}

\* C12 witness: the message listener found no message in the thread, and the
\* engine ran on the empty text and delivered a raw event.
C12_Witness ==
    /\ handler[1].kind = "message" /\ handler[1].messages = <<>>
    /\ handler[1].pc = "loop"
    /\ gen[1].new_message = "" /\ gen[1].received = 1

(***************************************************************************)
(* Claims about single raw events (SpecTranslate).                         *)
(***************************************************************************)
\* the rules that yielded something in the step from g to k
NewRules(g, k) == { k.origin[j][2] : j \in (Len(g.out) + 1)..Len(k.out) }

\* C15: a raw event that lacks any of author, content, function calls or
\* actions never aborts the turn, and a rule whose attribute is missing
\* matches nothing: without author no agent status and current_agent stays,
\* without function calls no tool status, without actions no hand-off
\* status, without content no content and has_started_streaming_content
\* stays; an event that lacks all four yields nothing and changes nothing.
C15_ShapelessEventNeverFatal ==
    [][ \A t \in Turns :
          LET g == gen[t]
              k == gen'[t]
              e == g.event[1]
          IN  g.event # <<>> /\ e.absent # {}
                => /\ k.raised = None /\ handler'[t].pc # "failed"
                   /\ ~HasAttr(e, "author")
                         => 1 \notin NewRules(g, k) /\ k.current_agent = g.current_agent
                   /\ ~HasAttr(e, "get_function_calls") => 2 \notin NewRules(g, k)
                   /\ ~HasAttr(e, "actions") => 3 \notin NewRules(g, k)
                   /\ ~HasAttr(e, "content")
                         => /\ 4 \notin NewRules(g, k)
                            /\ k.has_started_streaming_content
                                  = g.has_started_streaming_content ]_vars

\* a current raw event authored by the user that carries content parts
UserContentEvent(g) ==
    /\ g.event # <<>>
    /\ g.event[1].author = USER
    /\ g.event[1].content.present /\ g.event[1].content.parts # <<>>

\* C13 as stated: a user-authored raw event with content yields no event at
\* all and leaves current_agent and has_started_streaming_content as they
\* were.
C13_UserEventYieldsNothing ==
    [][ \A t \in Turns :
          UserContentEvent(gen[t])
            => /\ gen'[t].out = gen[t].out
               /\ gen'[t].current_agent = gen[t].current_agent
               /\ gen'[t].has_started_streaming_content
                     = gen[t].has_started_streaming_content ]_vars

\* C13: a user-authored raw event with content yields no content and no
\* agent status and leaves current_agent and has_started_streaming_content
\* as they were; what it may yield are the tool statuses of its function
\* calls and the hand-off status of its transfer target, and it yields
\* nothing at all when it has neither.
C13_UserEventYieldsNoContent ==
    [][ \A t \in Turns :
          LET g == gen[t]
              k == gen'[t]
              e == g.event[1]
          IN  UserContentEvent(g)
                => /\ NewRules(g, k) \subseteq {2, 3}
                   /\ k.current_agent = g.current_agent
                   /\ k.has_started_streaming_content = g.has_started_streaming_content
                   /\ e.function_calls = <<>> => 2 \notin NewRules(g, k)
                   /\ ~(e.actions.present /\ Truthy(e.actions.transfer_to_agent))
                         => 3 \notin NewRules(g, k) ]_vars

\* C13 witness: after MathAgent has streamed content, a user-authored event
\* with a text part and nothing else has gone through the agent, tool and
\* hand-off rules and stands at the content rule, which line 138 skips;
\* nothing was yielded for it.
C13_Witness ==
    /\ gen[1].received = 2 /\ UserContentEvent(gen[1])
    /\ gen[1].event[1].content.parts[1].text = "partial"
    /\ gen[1].event[1].function_calls = <<>> /\ ~gen[1].event[1].actions.present
    /\ gen[1].pc = "content"
    /\ gen[1].current_agent = "MathAgent" /\ gen[1].has_started_streaming_content
    /\ \A j \in DOMAIN gen[1].origin : gen[1].origin[j][1] = 1

(***************************************************************************)
(* Claims about the listener and its sink (SpecTurn).                      *)
(***************************************************************************)
\* the one sink call an output event stands for
SinkCall(ev) ==
    SinkOp(IF ev.type = "status" THEN "set_status" ELSE "append", ev.text)

\* the sink calls of the first n output events of the turn, in output order
SinkCalls(out, n) == [j \in 1..n |-> SinkCall(out[j])]

Stops(sink) == { i \in DOMAIN sink : sink[i].op = "stop" }

\* C14: a listener whose stream ended without failure has called stop on the
\* sink exactly once, as its last call and after the sink calls of all the
\* events call_llm yielded, and has posted no failure notice; stop is never
\* called twice, and never before call_llm has returned.
C14_FinalizeOnceAfterAllOutputs ==
    \A t \in Turns :
        LET h == handler[t]
            g == gen[t]
        IN  /\ Cardinality(Stops(h.sink)) <= 1
            /\ Stops(h.sink) # {} => g.pc = "returned" /\ g.yielded = <<>>
            /\ g.pc = "returned" => h.pc \in {"stop", "done", "failed"}
            /\ h.pc = "done"
                  => /\ g.pc = "returned"
                     /\ h.notices = 0
                     /\ Stops(h.sink) = {Len(h.sink)}
                     /\ SubSeq(h.sink, 2, Len(h.sink) - 1) = SinkCalls(g.out, Len(g.out))

\* C14 witness: a turn that yielded a status and a content event and was
\* finalized.
C14_Witness ==
    /\ handler[1].pc = "done"
    /\ \E i, j \in DOMAIN gen[1].out :
          gen[1].out[i].type = "status" /\ gen[1].out[j].type = "content"

NotStop(o) == o.op # "stop"

\* C20: the sink calls of a turn, after the listener's initial status and
\* apart from the final stop, are the yielded events in the order call_llm
\* yielded them, one set_status per status event and one append per content
\* event; at most the last yielded event is still to be forwarded, and while
\* it is, call_llm has not taken another raw event from the engine.
C20_SinkCallsInOutputOrder ==
    \A t \in Turns :
        LET h == handler[t]
            g == gen[t]
            n == Len(g.out) - Len(g.yielded)
        IN  /\ Len(g.yielded) <= 1
            /\ h.sink = <<>> => g.out = <<>>
            /\ h.sink # <<>> => SelectSeq(Tail(h.sink), NotStop) = SinkCalls(g.out, n)
            /\ g.yielded # <<>>
                  => /\ g.yielded[1] = g.out[Len(g.out)]
                     /\ g.origin[Len(g.out)][1] = g.received

\* C20 witness: two events were forwarded and a third, yielded for the second
\* raw event, is still to be forwarded.
C20_Witness ==
    /\ Len(gen[1].out) = 3 /\ gen[1].yielded # <<>>
    /\ Len(handler[1].sink) = 3
    /\ gen[1].received = 2
    /\ \E i, j \in 1..2 : gen[1].out[i].type = "status" /\ gen[1].out[j].type = "content"

(***************************************************************************)
(* Claims about the four rules of the translator (SpecTranslate).          *)
(***************************************************************************)
\* the readable names of the tools, as a user reads them
ReadableText(tool_name) ==
    IF tool_name = calculate THEN "Calculate" ELSE "Get Help Info"

\* C16: when the tool-call block has run for a raw event, the event's n
\* function calls have yielded, if content had not started, exactly n
\* statuses 'Using <Readable Tool Name>...', in call order and as the last n
\* events of the turn so far; if content had started, or the event has no
\* function call, the block yielded nothing.  In Scenario A, where the
\* first raw event yielded 'MathAgent is working...' and nothing else and
\* the second is MathAgent's call of calculate, the turn has then yielded
\* 'MathAgent is working...' and 'Using Calculate...', in that order.
C16_OneToolStatusPerCall ==
    \A t \in Turns :
        LET g == gen[t]
            calls == g.event[1].function_calls
            n == Len(calls)
            m == Len(g.out)
        IN  g.event # <<>> /\ g.pc = "transfer"
              => /\ IF g.has_started_streaming_content
                    THEN Produced(g, g.received, 2) = {}
                    ELSE /\ Produced(g, g.received, 2) = (m - n + 1)..m
                         /\ \A k \in 1..n :
                               g.out[m - n + k]
                                 = Status("Using " \o ReadableText(calls[k].name) \o "...")
                 /\ ( /\ g.received = 2
                      /\ g.event[1] = RawEvent("MathAgent", <<FunctionCall(calculate)>>,
                                                NoActions, NoContent)
                      /\ Produced(g, 1, 1) = {1}
                      /\ g.out[1] = Status("MathAgent is working...")
                      /\ \A r \in 2..4 : Produced(g, 1, r) = {} )
                     => g.out = << Status("MathAgent is working..."),
                                   Status("Using Calculate...") >>

\* C16 witness: the second raw event of MathAgent carried two function calls
\* and both statuses were yielded, after the agent status of the first.
C16_Witness ==
    /\ gen[1].pc = "transfer" /\ gen[1].received = 2
    /\ Len(gen[1].event[1].function_calls) = 2
    /\ gen[1].out = << Status("MathAgent is working..."),
                       Status("Using Get Help Info..."),
                       Status("Using Calculate...") >>
    /\ gen[1].origin = << <<1, 1>>, <<2, 2>>, <<2, 2>> >>

\* the step in which the agent rule runs for the raw event e of turn t
AgentRuleStep(t) ==
    gen[t].pc = "agent" /\ gen'[t].pc # "agent" /\ gen'[t].raised = None

\* C17: the agent rule yields '<author> is working...' exactly when the
\* author is present, not the user, differs from current_agent and content
\* has not started; current_agent becomes the author of every raw event
\* whose author is present and not the user, status or not, and no other
\* event and no other rule changes it: it is the author of the most recent
\* raw event authored by someone other than the user, and None before the
\* first (an event without author is authored by no one and leaves it).
C17_CurrentAgentIsLastAgentAuthor ==
    [][ \A t \in Turns :
          LET g == gen[t]
              k == gen'[t]
              e == g.event[1]
          IN  IF AgentRuleStep(t)
              THEN /\ (1 \in NewRules(g, k))
                        <=> ( /\ e.author # None /\ e.author # ""
                              /\ e.author # USER
                              /\ e.author # g.current_agent
                              /\ ~g.has_started_streaming_content )
                   /\ 1 \in NewRules(g, k)
                        => k.out[Len(k.out)] = Status(e.author \o " is working...")
                   /\ k.current_agent
                        = IF e.author # None /\ e.author # "" /\ e.author # USER
                          THEN e.author
                          ELSE g.current_agent
              ELSE /\ 1 \notin NewRules(g, k)
                   /\ k.current_agent = g.current_agent ]_vars

\* C17 witness: MathAgent streamed content, then TextAgent's event passed the
\* agent rule: no status was yielded for it, and current_agent is TextAgent.
C17_Witness ==
    /\ gen[1].received = 2 /\ gen[1].pc = "tools"
    /\ gen[1].event[1].author = "TextAgent"
    /\ gen[1].has_started_streaming_content
    /\ gen[1].current_agent = "TextAgent"
    /\ gen[1].out[1] = Status("MathAgent is working...")
    /\ Produced(gen[1], 2, 1) = {}

\* a part with a text that is not empty
NonEmptyText(part) == part.text # None /\ part.text # ""

\* C18: while the content rule runs for a raw event with content parts whose
\* author is not the user, the content events yielded for it are the texts
\* of the non-empty text parts among the parts gone through, one event per
\* part and in part order, and they are the last events of the turn so far;
\* no content event of the turn has an empty text.
C18_OneContentPerNonEmptyPart ==
    \A t \in Turns :
        LET g == gen[t]
            e == g.event[1]
            texts == SelectSeq(SubSeq(e.content.parts, 1, g.i - 1), NonEmptyText)
            n == Len(texts)
            m == Len(g.out)
        IN  /\ \A j \in DOMAIN g.out :
                  g.out[j].type = "content" => g.out[j].text \notin {"", None}
            /\ ( /\ g.event # <<>> /\ g.pc = "content"
                 /\ e.content.present /\ e.content.parts # <<>>
                 /\ e.author # USER )
                => /\ Produced(g, g.received, 4) = (m - n + 1)..m
                   /\ \A k \in 1..n : g.out[m - n + k] = ContentEvent(texts[k].text)

\* C18 witness: an event with a text part, a part without text and another
\* text part has gone through the content rule: two content events.
C18_Witness ==
    /\ gen[1].pc = "content" /\ gen[1].i = 4
    /\ gen[1].event[1].author = "MathAgent"
    /\ gen[1].event[1].content.parts[2].text = None
    /\ Len(gen[1].out) >= 2
    /\ SubSeq(gen[1].out, Len(gen[1].out) - 1, Len(gen[1].out))
          = << ContentEvent("Result: 4"), ContentEvent(" more") >>

\* C19: in every state of a turn has_started_streaming_content is true
\* exactly when a content event has been yielded in the turn, and no step
\* takes it back to false.
C19_StartedIffContentYielded ==
    [][ \A t \in Turns :
          LET g == gen[t]
              k == gen'[t]
          IN  /\ g.has_started_streaming_content <=> ContentYielded(g)
              /\ k.has_started_streaming_content <=> ContentYielded(k)
              /\ g.has_started_streaming_content => k.has_started_streaming_content ]_vars

\* C19 witness: the first raw event yielded the agent status and no content
\* and left the flag false; the second yielded content and set it.
C19_Witness ==
    /\ gen[1].received = 2
    /\ gen[1].has_started_streaming_content
    /\ \A j \in DOMAIN gen[1].out :
          gen[1].out[j].type = "content" => gen[1].origin[j] = <<2, 4>>
    /\ gen[1].out[1] = Status("MathAgent is working...")
    /\ gen[1].origin[1] = <<1, 1>>

(***************************************************************************)
(* Claims about what the turns of a process share (Spec).                  *)
(***************************************************************************)
\* C22: at most one runner is ever constructed in the process, and all the
\* turns that got a runner from get_adk_runner got the same one.
C22_OneRunner ==
    /\ runners <= 1
    /\ \A t1, t2 \in Turns :
          gen[t1].runner # 0 /\ gen[t2].runner # 0 => gen[t1].runner = gen[t2].runner

\* What a turn yields for one raw event when nothing else runs: the four
\* rules of llm_caller.py:100-143 as a function of the turn's current_agent
\* and has_started_streaming_content at the start of the event.
AgentNamed(e) == e.author \notin {None, "", USER}

ToolStatuses(calls) ==
    [j \in 1..Len(calls) |-> Status("Using " \o ReadableText(calls[j].name) \o "...")]

Contents(parts) ==
    LET texts == SelectSeq(parts, NonEmptyText)
    IN  [j \in 1..Len(texts) |-> ContentEvent(texts[j].text)]

TranslateOne(cur, started, e) ==
    LET switch == AgentNamed(e) /\ e.author # cur
        out1 == IF switch /\ ~started
                THEN <<Status(e.author \o " is working...")>> ELSE <<>>
        out2 == IF e.function_calls # <<>> /\ ~started
                THEN ToolStatuses(e.function_calls) ELSE <<>>
        out3 == IF e.actions.present /\ Truthy(e.actions.transfer_to_agent)
                THEN <<Status("Consulting " \o e.actions.transfer_to_agent \o "...")>>
                ELSE <<>>
        out4 == IF e.content.present /\ e.author # USER
                THEN Contents(e.content.parts) ELSE <<>>
    IN  [out |-> out1 \o out2 \o out3 \o out4,
         current_agent |-> IF switch THEN e.author ELSE cur,
         has_started_streaming_content |-> started \/ out4 # <<>>]

IsPrefix(a, b) == Len(a) <= Len(b) /\ SubSeq(b, 1, Len(a)) = a

\* what turn t had yielded before its current raw event
OutBefore(g) ==
    SubSeq(g.out, 1, Cardinality({ j \in DOMAIN g.out : g.origin[j][1] < g.received }))

\* C21: the turns of a process share no translator state.  A turn comes to
\* its first raw event with current_agent None, has_started_streaming_content
\* false and nothing yielded, whatever other turns did before or do
\* meanwhile; whatever it yields for a raw event extends what it had yielded
\* before by a prefix of what it yields for that event when run alone, and
\* when the event is done by exactly that, with the current_agent and
\* has_started_streaming_content of the run alone; and a step of one turn
\* changes nothing of the generator of another.
C21_TurnsDoNotInterfere ==
    [][ \A t \in Turns :
          LET g == gen[t]
              k == gen'[t]
              before == OutBefore(g)
              started == \E j \in DOMAIN before : before[j].type = "content"
          IN  /\ k.received = 0
                    => /\ k.current_agent = None
                       /\ ~k.has_started_streaming_content
                       /\ k.out = <<>>
              /\ g.event # <<>>
                    => \E cur \in IF g.received = 1 THEN {None} ELSE {None} \cup Agents :
                          LET alone == TranslateOne(cur, started, g.event[1])
                          IN  /\ IsPrefix(k.out, before \o alone.out)
                              /\ k.event = <<>>
                                    => /\ k.out = before \o alone.out
                                       /\ k.current_agent = alone.current_agent
                                       /\ k.has_started_streaming_content
                                             = alone.has_started_streaming_content
              /\ k # g => \A u \in Turns \ {t} : gen'[u] = gen[u] ]_vars

\* C21 witness: two turns are in the middle of a raw event at the same time;
\* the first has streamed content, and the second has yielded its agent
\* status and no content.
C21_Witness ==
    /\ gen[1].event # <<>> /\ gen[2].event # <<>>
    /\ gen[1].has_started_streaming_content
    /\ ~gen[2].has_started_streaming_content
    /\ gen[2].out # <<>> /\ gen[2].out[1].type = "status"
    /\ gen[2].origin[1] = <<1, 1>>

====
